---- MODULE Spec2Model ----
\* ATtiny85 time switch (src/src/main.cpp): setup() resolves the operating
\* configuration from two jumpers and the EEPROM clock calibration, loop()
\* runs once per watchdog wake-up and drives the undervoltage guard and the
\* load on/off timing.
EXTENDS Integers, Naturals, Sequences, FiniteSets, TLC

\* ---------------------------------------------------------------------------
\* Program constants
\* ---------------------------------------------------------------------------
TIMING_CYCLES_BATTERY_MEASUREMENT == 110
ADC_BATTERY_THRESHOLD_12v == 721
ADC_BATTERY_THRESHOLD_24v == 726
TIMING_CYCLES_LOAD_ON_12V == 7031
TIMING_CYCLES_LOAD_OFF_12V == 3516
TIMING_CYCLES_LOAD_ON_24V == 8789
TIMING_CYCLES_LOAD_OFF_24V == 1758
EEPROM_ADDR_CLOCK_CALIB_3_MSB == 0
EEPROM_ADDR_CLOCK_CALIB_2 == 1
EEPROM_ADDR_CLOCK_CALIB_1 == 2
EEPROM_ADDR_CLOCK_CALIB_0_LSB == 3
EEPROM_ADDR_CLOCK_CALIB_MAGIC_NUMBER == 4
EEPROM_CLOCK_CALIB_MAGIC_NUMBER == 205
SLEEP_CLOCK_VALUE_HZ == 128000
SLEEP_CLOCK_DEVIATION_MAX_HZ == 30000

\* ---------------------------------------------------------------------------
\* Bounds of the exploration
\* ---------------------------------------------------------------------------
\* wake-ups explored after setup(); longer than one complete ON/OFF period of
\* every configuration (the longest is 10848 + 2170 wake-ups)
MaxTicks == 13100
\* wake-ups explored after the undervoltage protection has triggered; longer
\* than one battery measurement period
MaxLatchedTicks == 120
\* wake-ups explored by the long runs; more than the 65536 values of a uint16_t
MaxLongTicks == 65600
\* wake-up from which on every battery reading is below the threshold, in the
\* runs of a battery that has discharged
LowFrom == 9000
\* wake-ups explored by the configuration specification
MaxBootTicks == 2

\* ---------------------------------------------------------------------------
\* Fixed-width unsigned arithmetic.  A uint32_t is the pair <<high, low>> of
\* its 16-bit halves; uint16_t and uint8_t are naturals.
\* ---------------------------------------------------------------------------
W8 == 256
W16 == 65536

U32(n) == <<n \div W16, n % W16>>

Lt32(a, b) == a[1] < b[1] \/ (a[1] = b[1] /\ a[2] < b[2])

\* low 16 bits of the product of two 16-bit values
MulLo16(x, y) == ((((x \div W8) * y) % W8) * W8 + (x % W8) * y) % W16

\* high 16 bits of the (32-bit) product of two 16-bit values
MulHi16(x, y) == (((x \div W8) * y) + (((x % W8) * y) \div W8)) \div W8

\* variant: the product is formed in 16 bits
Mul32_narrow(a, b) == <<0, MulLo16(a[2], b[2])>>

\* uint32_t * uint32_t, the product wraps modulo 2^32
Mul32(a, b) ==
    <<(MulHi16(a[2], b[2]) + MulLo16(a[1], b[2]) + MulLo16(a[2], b[1])) % W16,
      MulLo16(a[2], b[2])>>

\* uint32_t / 128000lu; 128000 = 1024 * 125 and the quotient is below 2^16
DivClock32(a) == ((a[1] * 64) + (a[2] \div 1024)) \div (SLEEP_CLOCK_VALUE_HZ \div 1024)

\* conversion of a uint32_t to uint16_t (assignment to a uint16_t object)
Low16(a) == a[2]

\* ---------------------------------------------------------------------------
\* Pins and helpers
\* ---------------------------------------------------------------------------
Level == {"LOW", "HIGH"}

\* variant: the load switch is driven active-low, as the voltage divider is
enable_load_active_low(enable) == IF enable THEN "LOW" ELSE "HIGH"

enable_load(enable) == IF enable THEN "HIGH" ELSE "LOW"

is_load_enabled(vbat_en) == vbat_en = "HIGH"

\* variant: the polarity of the voltage jumper is inverted
get_12V_24V_selection_inverted(pin) == pin = "LOW"

get_12V_24V_selection(pin) == pin = "HIGH"

get_feature_selection(pin) == pin = "LOW"

\* variant: the feature jumper is not consulted
load_timing_activated_always(all_features) == TRUE

load_timing_activated(all_features) == all_features = TRUE

\* ---------------------------------------------------------------------------
\* Clock calibration
\* ---------------------------------------------------------------------------
read_clock_calibration(e) ==
    LET clock_calib ==
            <<e[EEPROM_ADDR_CLOCK_CALIB_3_MSB] * W8 + e[EEPROM_ADDR_CLOCK_CALIB_2],
              e[EEPROM_ADDR_CLOCK_CALIB_1] * W8 + e[EEPROM_ADDR_CLOCK_CALIB_0_LSB]>>
    IN  IF clock_calib = <<W16 - 1, W16 - 1>> THEN U32(0) ELSE clock_calib

\* variant: the limits of the accepted band are themselves discarded
apply_clock_calibration_strict(calibration, uncalibrated_value) ==
    IF \/ ~Lt32(U32(SLEEP_CLOCK_VALUE_HZ - SLEEP_CLOCK_DEVIATION_MAX_HZ), calibration)
       \/ ~Lt32(calibration, U32(SLEEP_CLOCK_VALUE_HZ + SLEEP_CLOCK_DEVIATION_MAX_HZ))
    THEN uncalibrated_value
    ELSE U32(DivClock32(Mul32(calibration, uncalibrated_value)))

\* result as uint32_t
apply_clock_calibration(calibration, uncalibrated_value) ==
    IF \/ Lt32(calibration, U32(SLEEP_CLOCK_VALUE_HZ - SLEEP_CLOCK_DEVIATION_MAX_HZ))
       \/ Lt32(U32(SLEEP_CLOCK_VALUE_HZ + SLEEP_CLOCK_DEVIATION_MAX_HZ), calibration)
    THEN uncalibrated_value
    ELSE U32(DivClock32(Mul32(calibration, uncalibrated_value)))

\* variant: the marker is not consulted
clock_calibration_present_always(e) == TRUE

clock_calibration_present(e) ==
    e[EEPROM_ADDR_CLOCK_CALIB_MAGIC_NUMBER] = EEPROM_CLOCK_CALIB_MAGIC_NUMBER

\* ---------------------------------------------------------------------------
\* State
\* ---------------------------------------------------------------------------
VARIABLES
    pc,                                     \* "setup", "loop"; "apply", "applied" for the calibration function alone
    eeprom,                                 \* EEPROM bytes 0..4
    SELECT_12_24V_PIN,                      \* jumper input
    SELECT_FEATURE_PIN,                     \* jumper input
    VBAT_EN_PIN,                            \* load switch output
    clock_calibration,                      \* uint32_t
    all_features_activated,
    timing_cycles_load_on,                  \* uint16_t
    timing_cycles_load_off,                 \* uint16_t
    undervoltage_adc_threshold,             \* uint16_t
    wakeup_count_load_feature,              \* uint16_t, static in loop()
    wakeup_count_undervoltage_protection,   \* uint16_t, static in loop()
    undervoltage_protection_triggered,      \* static in loop()
    wake_state,                             \* static in loop()
    ticks,                                  \* observer: wake-ups since setup()
    calls,                                  \* observer: what the last loop() iteration did, in order
    sample,                                 \* observer: value read_battery_voltage() returned in the last iteration
    last_sample_tick,                       \* observer: wake-up of the latest measurement, 0 before the first
    on_since_boot,                          \* observer: the load was on at the end of every iteration so far
    arg_calibration, arg_value, result      \* apply_clock_calibration alone: arguments and result

config == <<eeprom, SELECT_12_24V_PIN, SELECT_FEATURE_PIN, clock_calibration,
            all_features_activated, timing_cycles_load_on, timing_cycles_load_off,
            undervoltage_adc_threshold>>
statics == <<wakeup_count_load_feature, wakeup_count_undervoltage_protection,
             undervoltage_protection_triggered, wake_state>>
observers == <<ticks, calls, sample, last_sample_tick, on_since_boot>>
harness == <<arg_calibration, arg_value, result>>
vars == <<pc, config, VBAT_EN_PIN, statics, observers, harness>>

NoSample == -1
NoResult == <<>>

\* EEPROM image holding the big-endian calibration bytes b3..b0 and a marker
EepromImage(b3, b2, b1, b0, marker) ==
    (EEPROM_ADDR_CLOCK_CALIB_3_MSB :> b3) @@ (EEPROM_ADDR_CLOCK_CALIB_2 :> b2) @@
    (EEPROM_ADDR_CLOCK_CALIB_1 :> b1) @@ (EEPROM_ADDR_CLOCK_CALIB_0_LSB :> b0) @@
    (EEPROM_ADDR_CLOCK_CALIB_MAGIC_NUMBER :> marker)

\* EEPROM image of a calibration value below 2^24 and a marker
EepromOf(c, marker) ==
    EepromImage(0, c \div W16, (c \div W8) % W8, c % W8, marker)

Erased == EepromImage(255, 255, 255, 255, 255)

\* EEPROM contents of the timing runs: erased, and calibrated at the lowest
\* accepted, a typical and the highest accepted clock
RunCalibrations == {98000, 128164, 140000, 158000}

RunEeproms ==
    {Erased} \cup {EepromOf(c, EEPROM_CLOCK_CALIB_MAGIC_NUMBER) : c \in RunCalibrations}

\* EEPROM contents of the configuration runs: every marker of Markers with
\* calibration values around the accepted band, and with values of 2^24 and more
Markers == {0, 204, 205, 206, 255}

BootCalibrations ==
    {0, 1, 97999, 98000, 98001, 127999, 128000, 128001, 140000, 157999, 158000, 158001, 16777215}

BootEeproms ==
    {EepromOf(c, m) : c \in BootCalibrations, m \in Markers} \cup
    {EepromImage(b[1], b[2], b[3], b[4], m) :
        b \in {<<255, 255, 255, 255>>, <<255, 255, 255, 254>>, <<1, 2, 34, 224>>, <<128, 1, 244, 0>>},
        m \in Markers}

\* arguments of the calibration function taken alone
ApplyCalibrations ==
    {U32(c) : c \in BootCalibrations \cup {110000, 128164}} \cup {<<W16 - 1, W16 - 1>>, <<W16 - 1, W16 - 2>>}

ApplyValues ==
    {U32(n) : n \in {k * 257 : k \in 0..255} \cup
                    {1, 2, 3, 110, 1758, 3516, 7031, 8789, 27183, 27184, 43826, 43827}}

\* values the averaged 10-bit ADC reading takes
SampleValues == {0, 720, 721, 725, 726, 1023}

\* state at reset: statics zero-initialised, port register cleared
PowerOn(e, p12, pf) ==
    /\ eeprom = e
    /\ SELECT_12_24V_PIN = p12
    /\ SELECT_FEATURE_PIN = pf
    /\ VBAT_EN_PIN = "LOW"
    /\ clock_calibration = U32(0)
    /\ all_features_activated = FALSE
    /\ timing_cycles_load_on = 0
    /\ timing_cycles_load_off = 0
    /\ undervoltage_adc_threshold = 0
    /\ wakeup_count_load_feature = 0
    /\ wakeup_count_undervoltage_protection = 0
    /\ undervoltage_protection_triggered = FALSE
    /\ wake_state = "STATE_LOAD_ON"
    /\ ticks = 0
    /\ calls = <<>>
    /\ sample = NoSample
    /\ last_sample_tick = 0
    /\ on_since_boot = TRUE

Init ==
    /\ pc = "setup"
    /\ \E e \in RunEeproms, p12 \in Level, pf \in Level : PowerOn(e, p12, pf)
    /\ arg_calibration = U32(0)
    /\ arg_value = U32(0)
    /\ result = NoResult

\* ---------------------------------------------------------------------------
\* setup()
\* ---------------------------------------------------------------------------
setup ==
    /\ pc = "setup"
    /\ LET calib == read_clock_calibration(eeprom)
           sel12 == get_12V_24V_selection(SELECT_12_24V_PIN)
           on0 == IF sel12 = TRUE THEN TIMING_CYCLES_LOAD_ON_12V ELSE TIMING_CYCLES_LOAD_ON_24V
           off0 == IF sel12 = TRUE THEN TIMING_CYCLES_LOAD_OFF_12V ELSE TIMING_CYCLES_LOAD_OFF_24V
       IN  /\ clock_calibration' = calib
           /\ all_features_activated' = get_feature_selection(SELECT_FEATURE_PIN)
           /\ undervoltage_adc_threshold' =
                  IF sel12 = TRUE THEN ADC_BATTERY_THRESHOLD_12v ELSE ADC_BATTERY_THRESHOLD_24v
           /\ IF clock_calibration_present(eeprom)
              THEN /\ timing_cycles_load_on' = Low16(apply_clock_calibration(calib, U32(on0)))
                   /\ timing_cycles_load_off' = Low16(apply_clock_calibration(calib, U32(off0)))
              ELSE /\ timing_cycles_load_on' = on0
                   /\ timing_cycles_load_off' = off0
    /\ VBAT_EN_PIN' = enable_load(TRUE)
    /\ pc' = "loop"
    /\ UNCHANGED <<eeprom, SELECT_12_24V_PIN, SELECT_FEATURE_PIN, statics, observers, harness>>

\* ---------------------------------------------------------------------------
\* loop(): one iteration per watchdog wake-up
\* ---------------------------------------------------------------------------
\* uint16_t increment
Inc16(n) == (n + 1) % W16

\* variant: the battery is measured with the load off as well
measurement_due_any_load(load_enabled, count) ==
    count >= TIMING_CYCLES_BATTERY_MEASUREMENT

\* variant: the battery is measured one wake-up late
measurement_due_late(load_enabled, count) ==
    load_enabled /\ count > TIMING_CYCLES_BATTERY_MEASUREMENT

\* condition of the periodic battery measurement
measurement_due(load_enabled, count) ==
    load_enabled /\ count >= TIMING_CYCLES_BATTERY_MEASUREMENT

\* variant: a reading equal to the threshold disables the load as well
battery_below_threshold_inclusive(adc, threshold) == adc <= threshold

\* condition under which the measured battery voltage disables the load
battery_below_threshold(adc, threshold) == adc < threshold

\* variant: the load timing does not consult the latch
load_timing_due_unlatched(timing_activated, triggered) == timing_activated

\* condition under which the load timing runs
load_timing_due(timing_activated, triggered) == timing_activated /\ ~triggered

\* variant: a timing state is left one wake-up late
timing_elapsed_late(count, cycles) == count > cycles

\* condition of leaving a timing state
timing_elapsed(count, cycles) == count >= cycles

\* variant: the measurement counter is not incremented
Woken_measurement_uncounted ==
    [load  |-> VBAT_EN_PIN,
     cl    |-> Inc16(wakeup_count_load_feature),
     cu    |-> wakeup_count_undervoltage_protection,
     latch |-> undervoltage_protection_triggered,
     state |-> wake_state,
     adc   |-> NoSample,
     calls |-> <<>>]

\* The locals of one iteration: s.load is VBAT_EN_PIN, s.cl and s.cu the two
\* wake-up counters, s.latch undervoltage_protection_triggered, s.state
\* wake_state, s.adc the reading, s.calls the record of what was done.
Woken ==
    [load  |-> VBAT_EN_PIN,
     cl    |-> Inc16(wakeup_count_load_feature),
     cu    |-> Inc16(wakeup_count_undervoltage_protection),
     latch |-> undervoltage_protection_triggered,
     state |-> wake_state,
     adc   |-> NoSample,
     calls |-> <<>>]

\* variant: the protection disables the load without setting the latch
undervoltage_protection_no_latch(s, adc) ==
    IF measurement_due(is_load_enabled(s.load), s.cu)
    THEN LET m == [s EXCEPT !.cu = 0,
                            !.adc = adc,
                            !.calls = @ \o <<"undervoltage_count=0", "read_battery_voltage">>]
         IN  IF battery_below_threshold(adc, undervoltage_adc_threshold)
             THEN [m EXCEPT !.load = enable_load(FALSE),
                            !.calls = @ \o <<"protection:enable_load(false)">>]
             ELSE m
    ELSE s

\* variant: the measurement counter is reset only after a good reading
undervoltage_protection_reset_late(s, adc) ==
    IF measurement_due(is_load_enabled(s.load), s.cu)
    THEN LET m == [s EXCEPT !.adc = adc,
                            !.calls = @ \o <<"read_battery_voltage">>]
         IN  IF battery_below_threshold(adc, undervoltage_adc_threshold)
             THEN [m EXCEPT !.load = enable_load(FALSE),
                            !.latch = TRUE,
                            !.calls = @ \o <<"protection:enable_load(false)", "triggered=true">>]
             ELSE [m EXCEPT !.cu = 0,
                            !.calls = @ \o <<"undervoltage_count=0">>]
    ELSE s

\* variant: the protection sets the latch without disabling the load
undervoltage_protection_load_kept(s, adc) ==
    IF measurement_due(is_load_enabled(s.load), s.cu)
    THEN LET m == [s EXCEPT !.cu = 0,
                            !.adc = adc,
                            !.calls = @ \o <<"undervoltage_count=0", "read_battery_voltage">>]
         IN  IF battery_below_threshold(adc, undervoltage_adc_threshold)
             THEN [m EXCEPT !.latch = TRUE,
                            !.calls = @ \o <<"triggered=true">>]
             ELSE m
    ELSE s

\* periodically measure the battery voltage if the load is active
undervoltage_protection(s, adc) ==
    IF measurement_due(is_load_enabled(s.load), s.cu)
    THEN LET m == [s EXCEPT !.cu = 0,
                            !.adc = adc,
                            !.calls = @ \o <<"undervoltage_count=0", "read_battery_voltage">>]
         IN  IF battery_below_threshold(adc, undervoltage_adc_threshold)
             THEN [m EXCEPT !.load = enable_load(FALSE),
                            !.latch = TRUE,
                            !.calls = @ \o <<"protection:enable_load(false)", "triggered=true">>]
             ELSE m
    ELSE s

\* variant: the load counter is not reset when the load is enabled again
load_timing_keeps_count(s) ==
    IF load_timing_due(load_timing_activated(all_features_activated), s.latch)
    THEN CASE s.state = "STATE_LOAD_ON" ->
                  IF timing_elapsed(s.cl, timing_cycles_load_on)
                  THEN [s EXCEPT !.cl = 0,
                                 !.load = enable_load(FALSE),
                                 !.state = "STATE_LOAD_OFF",
                                 !.calls = @ \o <<"load_count=0", "timing:enable_load(false)",
                                                  "wake_state=STATE_LOAD_OFF">>]
                  ELSE s
           [] s.state = "STATE_LOAD_OFF" ->
                  IF timing_elapsed(s.cl, timing_cycles_load_off)
                  THEN [s EXCEPT !.load = enable_load(TRUE),
                                 !.state = "STATE_LOAD_ON",
                                 !.calls = @ \o <<"timing:enable_load(true)",
                                                  "wake_state=STATE_LOAD_ON">>]
                  ELSE s
           [] OTHER ->
                  [s EXCEPT !.state = "STATE_LOAD_OFF",
                            !.calls = @ \o <<"default:wake_state=STATE_LOAD_OFF">>]
    ELSE s

\* variant: the latch only keeps the load timing from enabling the load
load_timing_latch_guards_enable(s) ==
    IF load_timing_activated(all_features_activated)
    THEN CASE s.state = "STATE_LOAD_ON" ->
                  IF timing_elapsed(s.cl, timing_cycles_load_on)
                  THEN [s EXCEPT !.cl = 0,
                                 !.load = enable_load(FALSE),
                                 !.state = "STATE_LOAD_OFF",
                                 !.calls = @ \o <<"load_count=0", "timing:enable_load(false)",
                                                  "wake_state=STATE_LOAD_OFF">>]
                  ELSE s
           [] s.state = "STATE_LOAD_OFF" ->
                  IF ~s.latch /\ timing_elapsed(s.cl, timing_cycles_load_off)
                  THEN [s EXCEPT !.cl = 0,
                                 !.load = enable_load(TRUE),
                                 !.state = "STATE_LOAD_ON",
                                 !.calls = @ \o <<"load_count=0", "timing:enable_load(true)",
                                                  "wake_state=STATE_LOAD_ON">>]
                  ELSE s
           [] OTHER ->
                  [s EXCEPT !.state = "STATE_LOAD_OFF",
                            !.calls = @ \o <<"default:wake_state=STATE_LOAD_OFF">>]
    ELSE s

\* variant: the switch has no case for STATE_LOAD_OFF
load_timing_no_off_case(s) ==
    IF load_timing_due(load_timing_activated(all_features_activated), s.latch)
    THEN CASE s.state = "STATE_LOAD_ON" ->
                  IF timing_elapsed(s.cl, timing_cycles_load_on)
                  THEN [s EXCEPT !.cl = 0,
                                 !.load = enable_load(FALSE),
                                 !.state = "STATE_LOAD_OFF",
                                 !.calls = @ \o <<"load_count=0", "timing:enable_load(false)",
                                                  "wake_state=STATE_LOAD_OFF">>]
                  ELSE s
           [] OTHER ->
                  [s EXCEPT !.state = "STATE_LOAD_OFF",
                            !.calls = @ \o <<"default:wake_state=STATE_LOAD_OFF">>]
    ELSE s

\* variant: the load is not enabled when the off time has elapsed
load_timing_no_enable(s) ==
    IF load_timing_due(load_timing_activated(all_features_activated), s.latch)
    THEN CASE s.state = "STATE_LOAD_ON" ->
                  IF timing_elapsed(s.cl, timing_cycles_load_on)
                  THEN [s EXCEPT !.cl = 0,
                                 !.load = enable_load(FALSE),
                                 !.state = "STATE_LOAD_OFF",
                                 !.calls = @ \o <<"load_count=0", "timing:enable_load(false)",
                                                  "wake_state=STATE_LOAD_OFF">>]
                  ELSE s
           [] s.state = "STATE_LOAD_OFF" ->
                  IF timing_elapsed(s.cl, timing_cycles_load_off)
                  THEN [s EXCEPT !.cl = 0,
                                 !.state = "STATE_LOAD_ON",
                                 !.calls = @ \o <<"load_count=0", "wake_state=STATE_LOAD_ON">>]
                  ELSE s
           [] OTHER ->
                  [s EXCEPT !.state = "STATE_LOAD_OFF",
                            !.calls = @ \o <<"default:wake_state=STATE_LOAD_OFF">>]
    ELSE s

\* enable/disable the load regularly
load_timing(s) ==
    IF load_timing_due(load_timing_activated(all_features_activated), s.latch)
    THEN CASE s.state = "STATE_LOAD_ON" ->
                  IF timing_elapsed(s.cl, timing_cycles_load_on)
                  THEN [s EXCEPT !.cl = 0,
                                 !.load = enable_load(FALSE),
                                 !.state = "STATE_LOAD_OFF",
                                 !.calls = @ \o <<"load_count=0", "timing:enable_load(false)",
                                                  "wake_state=STATE_LOAD_OFF">>]
                  ELSE s
           [] s.state = "STATE_LOAD_OFF" ->
                  IF timing_elapsed(s.cl, timing_cycles_load_off)
                  THEN [s EXCEPT !.cl = 0,
                                 !.load = enable_load(TRUE),
                                 !.state = "STATE_LOAD_ON",
                                 !.calls = @ \o <<"load_count=0", "timing:enable_load(true)",
                                                  "wake_state=STATE_LOAD_ON">>]
                  ELSE s
           [] OTHER ->
                  [s EXCEPT !.state = "STATE_LOAD_OFF",
                            !.calls = @ \o <<"default:wake_state=STATE_LOAD_OFF">>]
    ELSE s

\* the whole iteration, the battery reading being adc when it is taken
Iteration(adc) == load_timing(undervoltage_protection(Woken, adc))

Measures == measurement_due(is_load_enabled(VBAT_EN_PIN), Inc16(wakeup_count_undervoltage_protection))

\* variant: the calibration is applied to the on time again on every wake-up
LoopBody_recalibrating ==
    /\ pc = "loop"
    /\ \E adc \in IF Measures THEN SampleValues ELSE {NoSample} :
         LET s == Iteration(adc)
         IN  /\ VBAT_EN_PIN' = s.load
             /\ wakeup_count_load_feature' = s.cl
             /\ wakeup_count_undervoltage_protection' = s.cu
             /\ undervoltage_protection_triggered' = s.latch
             /\ wake_state' = s.state
             /\ calls' = s.calls
             /\ sample' = s.adc
             /\ ticks' = ticks + 1
             /\ last_sample_tick' = IF s.adc # NoSample THEN ticks + 1 ELSE last_sample_tick
             /\ on_since_boot' = (on_since_boot /\ is_load_enabled(s.load))
    /\ timing_cycles_load_on' =
           IF clock_calibration_present(eeprom)
           THEN Low16(apply_clock_calibration(clock_calibration, U32(timing_cycles_load_on)))
           ELSE timing_cycles_load_on
    /\ UNCHANGED <<pc, eeprom, SELECT_12_24V_PIN, SELECT_FEATURE_PIN, clock_calibration,
                   all_features_activated, timing_cycles_load_off,
                   undervoltage_adc_threshold, harness>>

\* one iteration, the battery reading being one of values when it is taken
LoopStep(values) ==
    /\ pc = "loop"
    /\ \E adc \in IF Measures THEN values ELSE {NoSample} :
         LET s == Iteration(adc)
         IN  /\ VBAT_EN_PIN' = s.load
             /\ wakeup_count_load_feature' = s.cl
             /\ wakeup_count_undervoltage_protection' = s.cu
             /\ undervoltage_protection_triggered' = s.latch
             /\ wake_state' = s.state
             /\ calls' = s.calls
             /\ sample' = s.adc
             /\ ticks' = ticks + 1
             /\ last_sample_tick' = IF s.adc # NoSample THEN ticks + 1 ELSE last_sample_tick
             /\ on_since_boot' = (on_since_boot /\ is_load_enabled(s.load))
    /\ UNCHANGED <<pc, config, harness>>

\* one iteration, the battery reading being any of SampleValues
LoopBody == LoopStep(SampleValues)

\* the timing runs: exploration stops MaxTicks wake-ups after setup() and
\* MaxLatchedTicks wake-ups after the protection triggered
loop ==
    /\ ticks < MaxTicks
    /\ undervoltage_protection_triggered =>
           wakeup_count_undervoltage_protection < MaxLatchedTicks
    /\ LoopBody

Next == setup \/ loop

Spec == Init /\ [][Next]_vars

\* ---------------------------------------------------------------------------
\* The configuration runs: every EEPROM content of BootEeproms, setup() and the
\* first wake-ups
\* ---------------------------------------------------------------------------
InitConfig ==
    /\ pc = "setup"
    /\ \E e \in BootEeproms, p12 \in Level, pf \in Level : PowerOn(e, p12, pf)
    /\ arg_calibration = U32(0)
    /\ arg_value = U32(0)
    /\ result = NoResult

loopConfig ==
    /\ ticks < MaxBootTicks
    /\ LoopBody

NextConfig == setup \/ loopConfig

SpecConfig == InitConfig /\ [][NextConfig]_vars

\* ---------------------------------------------------------------------------
\* apply_clock_calibration taken alone, on arguments of ApplyCalibrations and
\* ApplyValues
\* ---------------------------------------------------------------------------
InitApply ==
    /\ pc = "apply"
    /\ PowerOn(Erased, "LOW", "LOW")
    /\ arg_calibration \in ApplyCalibrations
    /\ arg_value \in ApplyValues
    /\ result = NoResult

apply ==
    /\ pc = "apply"
    /\ result' = apply_clock_calibration(arg_calibration, arg_value)
    /\ pc' = "applied"
    /\ UNCHANGED <<config, VBAT_EN_PIN, statics, observers, arg_calibration, arg_value>>

NextApply == apply

SpecApply == InitApply /\ [][NextApply]_vars

\* ---------------------------------------------------------------------------
\* The long runs: an erased EEPROM, both jumpers, more wake-ups than a
\* uint16_t counts
\* ---------------------------------------------------------------------------
InitLong ==
    /\ pc = "setup"
    /\ \E p12 \in Level, pf \in Level : PowerOn(Erased, p12, pf)
    /\ arg_calibration = U32(0)
    /\ arg_value = U32(0)
    /\ result = NoResult

loopLong ==
    /\ ticks < MaxLongTicks
    /\ undervoltage_protection_triggered =>
           wakeup_count_undervoltage_protection < MaxLatchedTicks
    /\ LoopBody

NextLong == setup \/ loopLong

SpecLong == InitLong /\ [][NextLong]_vars

\* ---------------------------------------------------------------------------
\* The runs of a discharged battery: as the timing runs, but from wake-up
\* LowFrom on every reading is below the threshold; the watchdog wakes the
\* controller again and again
\* ---------------------------------------------------------------------------
LowSamples == {v \in SampleValues : v < undervoltage_adc_threshold}

loopLow ==
    /\ ticks < MaxTicks
    /\ undervoltage_protection_triggered =>
           wakeup_count_undervoltage_protection < MaxLatchedTicks
    /\ LoopStep(IF ticks >= LowFrom THEN LowSamples ELSE SampleValues)

NextLow == setup \/ loopLow

SpecLow == Init /\ [][NextLow]_vars /\ WF_vars(setup) /\ WF_vars(loopLow)

\* ---------------------------------------------------------------------------
\* Properties
\* ---------------------------------------------------------------------------
LoadOn == VBAT_EN_PIN = "HIGH"

Triggered == undervoltage_protection_triggered

Sampled == sample # NoSample

Did(call) == \E i \in 1..Len(calls) : calls[i] = call

\* what the load timing does when it leaves a state
TimingCalls ==
    {"load_count=0", "timing:enable_load(false)", "timing:enable_load(true)",
     "wake_state=STATE_LOAD_OFF", "wake_state=STATE_LOAD_ON",
     "default:wake_state=STATE_LOAD_OFF"}

TimingRan == \E c \in TimingCalls : Did(c)

\* C1: the undervoltage latch is one-way.  On the iteration in which a battery
\* reading is below the threshold, and on every iteration that starts with the
\* latch set, the iteration ends with the latch set and the load off, in both
\* feature modes and whatever is read afterwards.
C1_LatchOneWay ==
    [][((sample' # NoSample /\ sample' < undervoltage_adc_threshold') \/ Triggered)
          => (undervoltage_protection_triggered' /\ VBAT_EN_PIN' = "LOW")]_vars

\* the latch has been set for a whole measurement period
C1_Witness ==
    Triggered /\ wakeup_count_undervoltage_protection > TIMING_CYCLES_BATTERY_MEASUREMENT

\* C2: with all features active and as long as no reading was below the
\* threshold, the load follows the period ticks_on + ticks_off exactly: it is
\* on, in STATE_LOAD_ON, for the first ticks_on wake-ups of every period and
\* off, in STATE_LOAD_OFF, for the other ticks_off, and the load counter is the
\* number of wake-ups since the last change, so that it is 0 on the
\* ticks_on-th wake-up and on the ticks_off-th after it.
C2_DutyPhases ==
    (pc = "loop" /\ all_features_activated /\ ~Triggered) =>
        LET phase == ticks % (timing_cycles_load_on + timing_cycles_load_off)
        IN  IF phase < timing_cycles_load_on
            THEN /\ LoadOn
                 /\ wake_state = "STATE_LOAD_ON"
                 /\ wakeup_count_load_feature = phase
            ELSE /\ ~LoadOn
                 /\ wake_state = "STATE_LOAD_OFF"
                 /\ wakeup_count_load_feature = phase - timing_cycles_load_on

\* 12 V, no calibration: the load is switched on again on wake-up 7031 + 3516
C2_Witness ==
    /\ all_features_activated /\ ~Triggered
    /\ timing_cycles_load_on = 7031 /\ timing_cycles_load_off = 3516
    /\ ticks = 10547
    /\ LoadOn /\ wake_state = "STATE_LOAD_ON" /\ wakeup_count_load_feature = 0
    /\ Did("timing:enable_load(true)")

\* C3: with only the undervoltage protection active the load timing never
\* acts: wake_state stays STATE_LOAD_ON, the load counter is never reset (it
\* counts the wake-ups since setup()), and the load is on exactly as long as
\* the protection has not triggered, so the only change of the load is the
\* one the protection makes when it sets the latch.
C3_ProtectionOnly ==
    (pc = "loop" /\ ~all_features_activated) =>
        /\ wake_state = "STATE_LOAD_ON"
        /\ ~TimingRan
        /\ wakeup_count_load_feature = ticks
        /\ LoadOn = ~Triggered
        /\ on_since_boot = ~Triggered
        /\ (Did("protection:enable_load(false)") =>
                (Sampled /\ sample < undervoltage_adc_threshold /\ Did("triggered=true")))

\* the load is still on after more wake-ups than a whole on/off period
C3_Witness ==
    /\ pc = "loop" /\ ~all_features_activated
    /\ ticks > timing_cycles_load_on + timing_cycles_load_off
    /\ LoadOn

\* C4: the load timing never runs with the latch set.  On an iteration that
\* ends with the latch set, the one in which the protection sets it included,
\* the load timing does nothing: wake_state is unchanged, the load counter is
\* the incremented one, and the only write to the load is the protection's.
C4_NoTimingWhenTriggered ==
    [][undervoltage_protection_triggered' =>
          /\ wake_state' = wake_state
          /\ wakeup_count_load_feature' = Inc16(wakeup_count_load_feature)
          /\ \A c \in TimingCalls : \A i \in 1..Len(calls') : calls'[i] # c]_vars

\* the protection triggers on the very wake-up on which the on time elapses
C4_Witness ==
    /\ all_features_activated
    /\ Did("triggered=true")
    /\ wakeup_count_load_feature >= timing_cycles_load_on

\* value of a uint32_t below 2^31
Nat32(a) == a[1] * W16 + a[2]

\* the accepted band 128000 +- 30000
InBand(c) == 98000 <= c /\ c <= 158000

\* the calibration stored in the EEPROM, read big-endian, when below 2^24
StoredCalibration(e) == (e[1] * 256 + e[2]) * 256 + e[3]

\* the EEPROM holds the marker and a calibration inside the band
ValidCalibration(e) == e[4] = 205 /\ e[0] = 0 /\ InBand(StoredCalibration(e))

\* floor(c * n / 65536) and floor(c * n / 128000) for c < 2^18 and n < 2^16,
\* computed without a product of more than 31 bits
ExactHigh(c, n) == ((c * (n \div 256)) + ((c * (n % 256)) \div 256)) \div 256

ExactScaled(c, n) == (((c * (n \div 256)) + ((c * (n % 256)) \div 256)) \div 4) \div 125

\* the table of nominal values, by the level of the voltage jumper
NominalOn == IF SELECT_12_24V_PIN = "HIGH" THEN 7031 ELSE 8789

NominalOff == IF SELECT_12_24V_PIN = "HIGH" THEN 3516 ELSE 1758

NominalThreshold == IF SELECT_12_24V_PIN = "HIGH" THEN 721 ELSE 726

\* C5 as stated: for every calibration c in [98000,158000] and every 16-bit n,
\* apply_clock_calibration(c, n) is floor(c * n / 128000).
C5_ExactForEveryU16 ==
    (pc = "applied" /\ arg_calibration[1] <= 2 /\ InBand(Nat32(arg_calibration))
        /\ arg_value[1] = 0)
    => result = U32(ExactScaled(Nat32(arg_calibration), arg_value[2]))

\* C5 as amended: for every calibration c in [98000,158000] and every 16-bit n
\* with c * n < 2^32, apply_clock_calibration(c, n) is floor(c * n / 128000).
C5_ExactWhileProductFits ==
    (pc = "applied" /\ arg_calibration[1] <= 2 /\ InBand(Nat32(arg_calibration))
        /\ arg_value[1] = 0
        /\ ExactHigh(Nat32(arg_calibration), arg_value[2]) < W16)
    => result = U32(ExactScaled(Nat32(arg_calibration), arg_value[2]))

\* the largest n whose product with the highest accepted calibration fits
C5_Witness ==
    /\ pc = "applied"
    /\ arg_calibration = U32(158000) /\ arg_value = U32(27183)
    /\ result = U32(33554)

\* C6: calibration is the identity whenever the stored constant is not valid:
\* without the marker, with an all-ones field, or with a constant outside
\* [98000,158000], the on and off times are the nominal values of the table,
\* for both voltage classes.
C6_InvalidIsIdentity ==
    (pc = "loop" /\ ~ValidCalibration(eeprom)) =>
        /\ timing_cycles_load_on = NominalOn
        /\ timing_cycles_load_off = NominalOff

\* the marker is present and the calibration field is erased
C6_Witness ==
    /\ pc = "loop"
    /\ eeprom = EepromImage(255, 255, 255, 255, 205)
    /\ timing_cycles_load_on \in {7031, 8789}

\* C7: the configuration follows the table: 12 V gives 7031, 3516 and 721,
\* 24 V gives 8789, 1758 and 726; the threshold is the table's for every
\* EEPROM content, and the on and off times are the table's values scaled
\* exactly once by a valid calibration.
C7_DerivationTable ==
    pc = "loop" =>
        /\ undervoltage_adc_threshold = NominalThreshold
        /\ timing_cycles_load_on =
               IF ValidCalibration(eeprom)
               THEN (StoredCalibration(eeprom) * NominalOn) \div 128000 ELSE NominalOn
        /\ timing_cycles_load_off =
               IF ValidCalibration(eeprom)
               THEN (StoredCalibration(eeprom) * NominalOff) \div 128000 ELSE NominalOff

\* 12 V with the calibration 140000
C7_Witness ==
    /\ pc = "loop"
    /\ SELECT_12_24V_PIN = "HIGH"
    /\ eeprom = EepromOf(140000, 205)
    /\ undervoltage_adc_threshold = 721
    /\ timing_cycles_load_on = 7690 /\ timing_cycles_load_off = 3845

\* C8: with the marker and a calibration c in [98000,158000] the load timing
\* uses floor(c * nominal / 128000) for both voltage classes: the product is
\* below 2^32, the quotient below 2^16, and the first on phase lasts that many
\* wake-ups; c = 140000 at 12 V gives 7690.
C8_CalibratedDurations ==
    (pc = "loop" /\ ValidCalibration(eeprom)) =>
        LET c == StoredCalibration(eeprom)
            on == ExactScaled(c, NominalOn)
            off == ExactScaled(c, NominalOff)
        IN  /\ ExactHigh(c, NominalOn) < W16 /\ ExactHigh(c, NominalOff) < W16
            /\ on < W16 /\ off < W16
            /\ timing_cycles_load_on = on /\ timing_cycles_load_off = off
            /\ (c = 140000 /\ SELECT_12_24V_PIN = "HIGH") => on = 7690
            /\ (all_features_activated /\ ~Triggered /\ ticks <= on) => (LoadOn <=> ticks < on)

\* calibrated with 140000 at 12 V the load goes off on wake-up 7690
C8_Witness ==
    /\ all_features_activated /\ ~Triggered
    /\ SELECT_12_24V_PIN = "HIGH"
    /\ eeprom = EepromOf(140000, 205)
    /\ ticks = 7690
    /\ ~LoadOn
    /\ Did("timing:enable_load(false)")

\* C9: the battery is measured on a wake-up only if the load is on when the
\* measurement is considered, two measurements (and setup() and the first)
\* are at least 110 wake-ups apart, and as long as the load has been on since
\* setup() the measurements fall on exactly the wake-ups 110, 220, ...
C9_MeasurementCadence ==
    [][/\ sample' # NoSample =>
             /\ VBAT_EN_PIN = "HIGH"
             /\ ticks' - last_sample_tick >= 110
       /\ (pc = "loop" /\ on_since_boot) =>
             ((sample' # NoSample) <=> (ticks' % 110 = 0))]_vars

\* the second measurement of a load that has been on since setup()
C9_Witness == Sampled /\ ticks = 220 /\ on_since_boot

\* C10: on every wake-up on which the battery is measured the measurement
\* counter is 0 at the end of the iteration, whatever was read, and it was
\* reset before the reading was taken and acted upon.
C10_CounterResetOnMeasurement ==
    Sampled =>
        /\ wakeup_count_undervoltage_protection = 0
        /\ Len(calls) >= 2
        /\ calls[1] = "undervoltage_count=0"
        /\ calls[2] = "read_battery_voltage"
        /\ \A i \in 1..Len(calls) :
               calls[i] \in {"protection:enable_load(false)", "triggered=true"} => i > 2

\* a measurement below the threshold
C10_Witness ==
    /\ Sampled /\ sample < undervoltage_adc_threshold
    /\ Did("protection:enable_load(false)")
    /\ wakeup_count_undervoltage_protection = 0

\* the same for the iteration a step ends
DidNext(call) == \E i \in 1..Len(calls') : calls'[i] = call

\* C11: the protection disables the load and sets the latch exactly when the
\* reading is strictly below the threshold of the table (721 at 12 V, 726 at
\* 24 V): a reading one below it disables the load, a reading equal to it or
\* above leaves the latch as it was and the protection does not write the load.
C11_StrictlyBelow ==
    [][sample' # NoSample =>
          IF sample' < NominalThreshold
          THEN /\ undervoltage_protection_triggered'
               /\ VBAT_EN_PIN' = "LOW"
               /\ DidNext("protection:enable_load(false)")
          ELSE /\ undervoltage_protection_triggered' = undervoltage_protection_triggered
               /\ ~DidNext("protection:enable_load(false)")
               /\ ~DidNext("triggered=true")
               /\ (VBAT_EN_PIN' # VBAT_EN_PIN => DidNext("timing:enable_load(false)"))]_vars

\* a reading equal to the threshold, the load stays on
C11_Witness ==
    /\ Sampled /\ sample = NominalThreshold
    /\ LoadOn /\ ~Triggered

\* C12: once the latch is set the battery is never measured again, in both
\* feature modes: an iteration that starts with the latch set reads nothing.
C12_NoMeasurementWhenTriggered ==
    [][Triggered =>
          /\ sample' = NoSample
          /\ ~DidNext("read_battery_voltage")
          /\ ~DidNext("undervoltage_count=0")]_vars

\* the wake-up on which the next measurement would have been due
C12_Witness ==
    /\ Triggered /\ ~Sampled
    /\ wakeup_count_undervoltage_protection = TIMING_CYCLES_BATTERY_MEASUREMENT

\* C13 as stated: in every iteration the load counter is 0 afterwards if the
\* load timing changed its state and one more than before otherwise, and the
\* measurement counter is 0 afterwards if the battery was measured and one
\* more than before otherwise, for any number of wake-ups.
C13_ResetOnlyWhenConsumed ==
    [][pc = "loop" =>
          /\ wakeup_count_load_feature' =
                 IF wake_state' # wake_state THEN 0 ELSE wakeup_count_load_feature + 1
          /\ wakeup_count_undervoltage_protection' =
                 IF sample' # NoSample THEN 0 ELSE wakeup_count_undervoltage_protection + 1]_vars

\* C13 as amended: the same with the increment taken modulo 2^16, so that a
\* counter nothing consumes for 65536 wake-ups returns from 65535 to 0.
C13_ResetOrIncrementMod16 ==
    [][pc = "loop" =>
          /\ wakeup_count_load_feature' =
                 IF wake_state' # wake_state THEN 0
                 ELSE (wakeup_count_load_feature + 1) % 65536
          /\ wakeup_count_undervoltage_protection' =
                 IF sample' # NoSample THEN 0
                 ELSE (wakeup_count_undervoltage_protection + 1) % 65536]_vars

\* with only the protection active the load counter is 0 again on wake-up 65536
C13_Witness ==
    /\ ~all_features_activated /\ LoadOn
    /\ ticks = 65536
    /\ wakeup_count_load_feature = 0
    /\ ~TimingRan

\* C14: after setup() and before the first wake-up the load is on, the load
\* timing is in STATE_LOAD_ON, the latch is clear and both counters are 0, for
\* both levels of either jumper and every EEPROM content.
C14_StateBeforeFirstWakeup ==
    (pc = "loop" /\ ticks = 0) =>
        /\ VBAT_EN_PIN = "HIGH"
        /\ wake_state = "STATE_LOAD_ON"
        /\ undervoltage_protection_triggered = FALSE
        /\ wakeup_count_load_feature = 0
        /\ wakeup_count_undervoltage_protection = 0
        /\ calls = <<>>

\* only the protection selected, 24 V, a calibration stored
C14_Witness ==
    /\ pc = "loop" /\ ticks = 0
    /\ SELECT_FEATURE_PIN = "HIGH" /\ ~all_features_activated
    /\ SELECT_12_24V_PIN = "LOW"
    /\ eeprom = EepromOf(158000, 205)
    /\ LoadOn

\* C15: no wake-up changes the operating configuration: the on and off times,
\* the threshold, the feature mode and the calibration value read at startup
\* are left as setup() derived them by every iteration of loop(), and so are
\* the EEPROM and the jumpers they were derived from.
C15_ConfigurationFrozen ==
    [][pc = "loop" =>
          /\ timing_cycles_load_on' = timing_cycles_load_on
          /\ timing_cycles_load_off' = timing_cycles_load_off
          /\ undervoltage_adc_threshold' = undervoltage_adc_threshold
          /\ all_features_activated' = all_features_activated
          /\ clock_calibration' = clock_calibration
          /\ eeprom' = eeprom
          /\ SELECT_12_24V_PIN' = SELECT_12_24V_PIN
          /\ SELECT_FEATURE_PIN' = SELECT_FEATURE_PIN]_vars

\* a calibrated configuration after more than a whole on/off period
C15_Witness ==
    /\ pc = "loop" /\ all_features_activated
    /\ eeprom = EepromOf(140000, 205)
    /\ ticks > timing_cycles_load_on + timing_cycles_load_off
    /\ timing_cycles_load_on = ExactScaled(140000, NominalOn)
    /\ timing_cycles_load_off = ExactScaled(140000, NominalOff)
    /\ clock_calibration = U32(140000)

\* the writes of the load switch among the calls of the last iteration
LoadWrites ==
    {i \in 1..Len(calls) :
        calls[i] \in {"protection:enable_load(false)", "timing:enable_load(false)",
                      "timing:enable_load(true)"}}

\* C16: the load is written at most once per iteration: when the protection
\* switched it off the load timing writes it neither off nor on again in the
\* same iteration.
C16_OneLoadWritePerWakeup ==
    /\ Cardinality(LoadWrites) <= 1
    /\ Did("protection:enable_load(false)") =>
           /\ ~Did("timing:enable_load(false)")
           /\ ~Did("timing:enable_load(true)")
           /\ ~LoadOn

\* the protection switches the load off on the wake-up on which the on time
\* has just elapsed
C16_Witness ==
    /\ all_features_activated
    /\ Did("protection:enable_load(false)")
    /\ wake_state = "STATE_LOAD_ON"
    /\ wakeup_count_load_feature = timing_cycles_load_on

\* C17: wake_state is STATE_LOAD_ON or STATE_LOAD_OFF in every state, and no
\* iteration takes the default branch of the switch.
C17_DefaultBranchUnreachable ==
    /\ wake_state \in {"STATE_LOAD_ON", "STATE_LOAD_OFF"}
    /\ ~Did("default:wake_state=STATE_LOAD_OFF")

\* the switch has been through both of its cases
C17_Witness ==
    /\ all_features_activated
    /\ wake_state = "STATE_LOAD_ON"
    /\ Did("wake_state=STATE_LOAD_ON")
    /\ ticks = timing_cycles_load_on + timing_cycles_load_off

\* C18 as stated: on every wake-up on which the battery is measured the
\* measurement counter, after the increment of that wake-up, is exactly 110.
C18_MeasuredAtExactly110 ==
    [][sample' # NoSample => wakeup_count_undervoltage_protection + 1 = 110]_vars

\* C18 as amended: on every wake-up on which the battery is measured the
\* incremented measurement counter is at least 110 and is the number of
\* wake-ups since the previous measurement; it is exactly 110 with only the
\* protection active and as long as the load has been on since setup(), and it
\* is above 110 only on the wake-up right after the load timing switched the
\* load on again, the counter having run on through the off phase.
C18_MeasuredAtOrAbove110 ==
    [][sample' # NoSample =>
          LET count == wakeup_count_undervoltage_protection + 1
          IN  /\ count >= 110
              /\ count = ticks' - last_sample_tick
              /\ (~all_features_activated \/ on_since_boot) => count = 110
              /\ count > 110 =>
                     /\ Did("timing:enable_load(true)")
                     /\ count > timing_cycles_load_off]_vars

\* the measurement right after the first off phase
C18_Witness ==
    /\ Sampled /\ all_features_activated
    /\ ticks = timing_cycles_load_on + timing_cycles_load_off + 1
    /\ ticks - last_sample_tick = 0
    /\ wakeup_count_undervoltage_protection = 0

\* C19: at the end of every iteration, with all features active and the latch
\* clear the load is on exactly when wake_state is STATE_LOAD_ON; with the
\* latch set the load is off whatever wake_state is.
C19_LoadAgreesWithState ==
    pc = "loop" =>
        /\ (all_features_activated /\ ~undervoltage_protection_triggered) =>
               ((VBAT_EN_PIN = "HIGH") <=> (wake_state = "STATE_LOAD_ON"))
        /\ undervoltage_protection_triggered => VBAT_EN_PIN = "LOW"

\* the latch is set, the load is off and wake_state is still STATE_LOAD_ON
C19_Witness ==
    /\ all_features_activated /\ Triggered
    /\ ~LoadOn /\ wake_state = "STATE_LOAD_ON"
    /\ ~Did("triggered=true")

\* C20: bounded response of the protection.  From a state with the load on,
\* every wake-up either measures the battery, or has the load timing switch
\* the load off, or leaves the load on with the measurement counter one higher
\* and still below 110, so that a measurement or a switch-off follows within
\* 110 wake-ups.  Hence, every reading being below the threshold from wake-up
\* LowFrom on, the load is not on later than 110 wake-ups after LowFrom except
\* on the one wake-up on which the load timing switches it on again, and the
\* latch is eventually set, in both feature modes.
C20_BoundedResponse ==
    /\ [][(pc = "loop" /\ VBAT_EN_PIN = "HIGH") =>
             \/ sample' # NoSample
             \/ DidNext("timing:enable_load(false)")
             \/ /\ VBAT_EN_PIN' = "HIGH"
                /\ wakeup_count_undervoltage_protection' =
                       wakeup_count_undervoltage_protection + 1
                /\ wakeup_count_undervoltage_protection' < 110]_vars
    /\ []((VBAT_EN_PIN = "HIGH" /\ ticks > LowFrom + 110) => Did("timing:enable_load(true)"))
    /\ <>undervoltage_protection_triggered

\* the load timing switched the load on after LowFrom, the next reading sets
\* the latch
C20_Witness ==
    /\ all_features_activated /\ Triggered
    /\ Did("triggered=true")
    /\ ticks > LowFrom + 110
    /\ ticks = timing_cycles_load_on + timing_cycles_load_off + 1

====
